---- MODULE Spec2Model ----
(***************************************************************************)
(* Model of src/main.py: the Douban Top 250 scraper.  main() writes the    *)
(* CSV header, drives pages 0..9 through handle_one_page followed by       *)
(* random_sleep, then runs analyze_data.                                   *)
(*                                                                         *)
(* Text is a sequence of one-character strings.  The nationality marker,   *)
(* two CJK characters in the source, is written "Z","G" here because the   *)
(* module is ASCII.  A Python None that stands where a text could stand is *)
(* the sentinel None; a markup element that find() does not find is the    *)
(* sentinel Absent.                                                        *)
(***************************************************************************)
EXTENDS Naturals, Sequences, FiniteSets, TLC

VARIABLES
    \* the program: where main() is, and the locals of main and handle_one_page
    pc, page, soup, chinese_items, movie_infos, movie_posters, idx,
    \* the files: douban.csv, the names under film_img/, the plotted series
    csv, images, chart,
    \* the run so far: page requests sent, sleeps taken, poster downloads
    \* attempted, header writes, where an uncaught exception was raised
    requests, sleeps, attempts, headerWrites, crashedIn,
    \* the run so far: fetches that failed, item blocks served, the rows of
    \* the retained blocks of the pages written, and douban.csv and the
    \* download attempts as they were when the current page was requested
    fetchFailures, itemsServed, retainedRows, csvAtFetch, attemptsAtFetch

vars == <<pc, page, soup, chinese_items, movie_infos, movie_posters, idx,
          csv, images, chart, requests, sleeps, attempts, headerWrites,
          crashedIn, fetchFailures, itemsServed, retainedRows, csvAtFetch,
          attemptsAtFetch>>

-----------------------------------------------------------------------------
(* Bounds of the model *)

\* item blocks in one served document
MaxBlocks == 2
\* item blocks served over one run
MaxItems == 2
\* page fetches that fail in one run
MaxFetchFailures == 2
\* poster downloads that fail in one run
MaxDownloadFailures == 1

-----------------------------------------------------------------------------
(* Characters and text *)

NL == "\n"
SP == " "
None == <<"<None>">>
Absent == <<"<Absent>">>

Whitespace == {NL, SP}
Digits == {"0", "1", "2", "3", "4", "5", "6", "7", "8", "9"}

DigitVal(c) ==
    CASE c = "0" -> 0 [] c = "1" -> 1 [] c = "2" -> 2 [] c = "3" -> 3
      [] c = "4" -> 4 [] c = "5" -> 5 [] c = "6" -> 6 [] c = "7" -> 7
      [] c = "8" -> 8 [] c = "9" -> 9

\* "中国" in the source
Marker == <<"Z", "G">>

\* needle in text
Contains(text, needle) ==
    \E i \in 1..(Len(text) + 1) :
        /\ i + Len(needle) - 1 <= Len(text)
        /\ SubSeq(text, i, i + Len(needle) - 1) = needle

RECURSIVE LStrip(_)
LStrip(s) ==
    IF s # <<>> /\ Head(s) \in Whitespace THEN LStrip(Tail(s)) ELSE s

RECURSIVE RStrip(_)
RStrip(s) ==
    IF s # <<>> /\ s[Len(s)] \in Whitespace
    THEN RStrip(SubSeq(s, 1, Len(s) - 1))
    ELSE s

\* str.strip()
Strip(s) == RStrip(LStrip(s))

\* index of the first line break of s, 0 when there is none
FirstBreak(s) ==
    IF \E i \in 1..Len(s) : s[i] = NL
    THEN CHOOSE i \in 1..Len(s) : s[i] = NL /\ \A j \in 1..(i - 1) : s[j] # NL
    ELSE 0

\* str.splitlines(): no line for the empty text, none after a final break
RECURSIVE Splitlines(_)
Splitlines(s) ==
    IF s = <<>> THEN <<>>
    ELSE LET b == FirstBreak(s) IN
         IF b = 0 THEN <<s>>
         ELSE <<SubSeq(s, 1, b - 1)>> \o Splitlines(SubSeq(s, b + 1, Len(s)))

\* s[:n]
Prefix(s, n) == SubSeq(s, 1, IF Len(s) < n THEN Len(s) ELSE n)


-----------------------------------------------------------------------------
(* Markup: item blocks and documents *)

\* One <div class="item">.  desc is the text of div.bd > p, title the text
\* of div.hd > span.title, hasImg whether div.pic > img is found, alt and
\* src the attributes of that img (None when the attribute is missing).
Block(desc, title, hasImg, alt, src) ==
    [desc |-> desc, title |-> title, hasImg |-> hasImg, alt |-> alt, src |-> src]

DescChina1994 == <<NL, SP, "D", NL, SP, "1", "9", "9", "4", SP, "Z", "G", NL>>
DescChina2001 == <<"D", NL, "2", "0", "0", "1", "7", SP, "Z", "G">>
DescForeign == <<NL, "D", NL, "1", "9", "9", "4", SP, "U">>
DescNoYear == <<"D", SP, "Z", "G", NL, "x", "y", NL>>
DescOneLine == <<SP, "D", SP, "Z", "G", NL>>

Blocks ==
    { Block(DescChina1994, <<"A">>, TRUE, <<"a">>, <<"u">>),
      Block(DescChina2001, <<"B">>, TRUE, <<"b">>, <<"v">>),
      Block(DescForeign, <<"C">>, TRUE, <<"c">>, <<"w">>),
      Block(DescNoYear, <<"E">>, TRUE, <<"e">>, <<"u">>),
      Block(DescOneLine, <<"F">>, TRUE, <<"f">>, <<"u">>),
      Block(Absent, <<"H">>, TRUE, <<"h">>, <<"u">>),
      Block(DescChina1994, Absent, TRUE, <<"i">>, <<"u">>),
      Block(DescChina1994, <<"J">>, FALSE, None, None),
      Block(DescForeign, Absent, FALSE, None, None),
      Block(DescChina1994, <<"K">>, TRUE, <<"k", "/", "l">>, <<"u">>),
      Block(DescChina2001, <<"M">>, TRUE, None, None) }

\* the sequences over S of length at most n
SeqsUpTo(S, n) == UNION { [1..m -> S] : m \in 0..n }

Documents == SeqsUpTo(Blocks, MaxBlocks)

\* get_soup's results: a parsed document, or None
Soup(items) == [parsed |-> TRUE, items |-> items]
NoSoup == [parsed |-> FALSE, items |-> <<>>]

-----------------------------------------------------------------------------
(* The functions of src/main.py *)

\* the offset counted from 1
get_params_OneBased(p) == [start |-> (p + 1) * 25]

get_params(p) == [start |-> p * 25]

\* A function's outcome: the value it returns, or raised = TRUE when an
\* exception leaves it.
Returned(v) == [raised |-> FALSE, value |-> v]
Raised == [raised |-> TRUE, value |-> <<>>]

RECURSIVE ChineseLoop(_, _)
ChineseLoop(items, acc) ==
    IF items = <<>> THEN Returned(acc)
    ELSE LET item == Head(items) IN
         IF item.desc = Absent THEN Raised
         ELSE ChineseLoop(Tail(items),
                          IF Contains(item.desc, Marker)
                          THEN Append(acc, item) ELSE acc)

\* get_chinese_items with the test of the marker left out
get_chinese_items_Unfiltered(items) ==
    IF \E i \in 1..Len(items) : items[i].desc = Absent
    THEN Raised ELSE Returned(items)

get_chinese_items(items) == ChineseLoop(items, <<>>)

\* the year taken from the text as it is, without the first strip()
YearOf_Unstripped(desc) ==
    LET lines == Splitlines(desc) IN
    IF Len(lines) < 2 THEN Raised
    ELSE Returned(Prefix(Strip(lines[2]), 4))

\* get_text().strip().splitlines()[1].strip()[:4]; Raised is the IndexError
YearOf(desc) ==
    LET lines == Splitlines(Strip(desc)) IN
    IF Len(lines) < 2 THEN Raised
    ELSE Returned(Prefix(Strip(lines[2]), 4))

RECURSIVE InfosLoop(_, _)
InfosLoop(items, acc) ==
    IF items = <<>> THEN Returned(acc)
    ELSE LET item == Head(items) IN
         IF item.title = Absent \/ item.desc = Absent THEN Raised
         ELSE LET year == YearOf(item.desc) IN
              IF year.raised THEN Raised
              ELSE InfosLoop(Tail(items),
                             Append(acc, <<item.title, year.value>>))

get_movie_infos(items) == InfosLoop(items, <<>>)

\* get_movie_posters passing over a block without an image element
get_movie_posters_Tolerant(items) ==
    Returned([i \in 1..Len(items) |->
                 IF items[i].hasImg THEN <<items[i].alt, items[i].src>>
                 ELSE <<None, None>>])

\* get_movie_posters keeping only the images that have a src
get_movie_posters_SkipsMissingSrc(items) ==
    IF \E i \in 1..Len(items) : ~items[i].hasImg THEN Raised
    ELSE LET kept == SelectSeq(items, LAMBDA b : b.src # None) IN
         Returned([i \in 1..Len(kept) |-> <<kept[i].alt, kept[i].src>>])

RECURSIVE PostersLoop(_, _)
PostersLoop(items, acc) ==
    IF items = <<>> THEN Returned(acc)
    ELSE LET item == Head(items) IN
         IF ~item.hasImg THEN Raised
         ELSE PostersLoop(Tail(items), Append(acc, <<item.alt, item.src>>))

get_movie_posters(items) == PostersLoop(items, <<>>)

\* csv.writer writes None as the empty field
CsvField(v) == IF v = None THEN <<>> ELSE v

\* the header row: film title, release year, poster link
HeaderRow == << <<"t">>, <<"y">>, <<"p">> >>

Min(a, b) == IF a < b THEN a ELSE b

\* zip(movie_infos, movie_posters): as long as the shorter list
ZipRows(infos, posters) ==
    [i \in 1..Min(Len(infos), Len(posters)) |->
        <<CsvField(infos[i][1]), CsvField(infos[i][2]), CsvField(posters[i][2])>>]

\* write_to_csv opening the file with "w": the rows written before are lost
AppendRows_Truncating(file, infos, posters) == ZipRows(infos, posters)

\* open("douban.csv", "a") and one writerow per pair
AppendRows(file, infos, posters) == file \o ZipRows(infos, posters)

\* open("douban.csv", "w") and the header row
TruncateWithHeader(file) == <<HeaderRow>>

\* f"film_img/{name}.jpg": None is formatted as the word None
FileName(name) == IF name = None THEN <<"N", "o", "n", "e">> ELSE name

\* open(..., "wb") finds no directory for a name that holds a path separator
CanCreate(name) == ~Contains(FileName(name), <<"/">>)

-----------------------------------------------------------------------------
(* analyze_data *)

RECURSIVE DigitsValue(_, _)
DigitsValue(s, acc) ==
    IF s = <<>> THEN acc ELSE DigitsValue(Tail(s), acc * 10 + DigitVal(Head(s)))

\* int(text): surrounding whitespace is dropped, then every character must
\* be a digit; Raised is the ValueError
ParseInt(text) ==
    LET t == Strip(text) IN
    IF t # <<>> /\ \A i \in 1..Len(t) : t[i] \in Digits
    THEN Returned(DigitsValue(t, 0))
    ELSE Raised

\* [int(row[1]) for row in reader], after next(reader) skipped the header
RECURSIVE YearsLoop(_, _)
YearsLoop(rows, acc) ==
    IF rows = <<>> THEN Returned(acc)
    ELSE LET y == ParseInt(Head(rows)[2]) IN
         IF y.raised THEN Raised
         ELSE YearsLoop(Tail(rows), Append(acc, y.value))

ReadYears(file) == YearsLoop(Tail(file), <<>>)

\* Counter(years)
Counter(years) ==
    [y \in { years[i] : i \in 1..Len(years) } |->
        Cardinality({ i \in 1..Len(years) : years[i] = y })]

\* sorted(counter.items(), key=lambda x: x[0])
RECURSIVE SortedItems(_, _)
SortedItems(counter, keys) ==
    IF keys = {} THEN <<>>
    ELSE LET least == CHOOSE k \in keys : \A other \in keys : k <= other IN
         <<<<least, counter[least]>>>> \o SortedItems(counter, keys \ {least})

Histogram(years) ==
    LET counter == Counter(years) IN SortedItems(counter, DOMAIN counter)

NoChart == << <<0, 0>> >>

-----------------------------------------------------------------------------
(* The run of main() *)

\* for page in track(range(10))
NumPages == 10

\* douban.csv before the run: missing, or left by an earlier run
StaleFiles == { <<>>, <<HeaderRow, << <<"O">>, <<"1", "9", "9", "0">>, <<"o">> >> >> }

\* the row of one retained block: its title, its year, its poster link
RowOf(block) ==
    <<block.title, YearOf(block.desc).value, CsvField(block.src)>>

HasMarker(block) == Contains(block.desc, Marker)

\* the rows of a document: one per block that holds the marker, in order
RowsOf(items) ==
    LET kept == SelectSeq(items, HasMarker) IN
    [i \in 1..Len(kept) |-> RowOf(kept[i])]

DownloadFailures(atts) == Cardinality({ i \in 1..Len(atts) : ~atts[i].ok })

Init ==
    /\ pc = "write_csv_header"
    /\ page = 0
    /\ soup = NoSoup
    /\ chinese_items = <<>>
    /\ movie_infos = <<>>
    /\ movie_posters = <<>>
    /\ idx = 1
    /\ csv \in StaleFiles
    /\ images = {}
    /\ chart = NoChart
    /\ requests = <<>>
    /\ sleeps = <<>>
    /\ attempts = <<>>
    /\ headerWrites = 0
    /\ crashedIn = "nowhere"
    /\ fetchFailures = 0
    /\ itemsServed = 0
    /\ retainedRows = <<>>
    /\ csvAtFetch = <<>>
    /\ attemptsAtFetch = <<>>

\* an exception no handler catches ends the run
Crash(where) ==
    /\ pc' = "crashed"
    /\ crashedIn' = where

\* main: write_csv_header()
WriteCsvHeader ==
    /\ pc = "write_csv_header"
    /\ csv' = TruncateWithHeader(csv)
    /\ headerWrites' = headerWrites + 1
    /\ pc' = "get_soup"
    /\ UNCHANGED <<page, soup, chinese_items, movie_infos, movie_posters, idx,
                   images, chart, requests, sleeps, attempts, crashedIn,
                   fetchFailures, itemsServed, retainedRows, csvAtFetch,
                   attemptsAtFetch>>

\* get_soup sends the request for the page
SendRequest ==
    /\ requests' = Append(requests, [page |-> page, params |-> get_params(page)])
    /\ csvAtFetch' = csv
    /\ attemptsAtFetch' = attempts

\* handle_one_page: soup = get_soup(page), the request answered with a document
GetSoupParsed ==
    /\ pc = "get_soup"
    /\ SendRequest
    /\ \E doc \in Documents :
        /\ itemsServed + Len(doc) <= MaxItems
        /\ soup' = Soup(doc)
        /\ itemsServed' = itemsServed + Len(doc)
    /\ pc' = "get_chinese_items"
    /\ UNCHANGED <<page, chinese_items, movie_infos, movie_posters, idx, csv,
                   images, chart, sleeps, attempts, headerWrites, crashedIn,
                   fetchFailures, retainedRows>>

\* get_soup without its except clause: the RequestException ends the run
GetSoupFailed_Uncaught ==
    /\ pc = "get_soup"
    /\ fetchFailures < MaxFetchFailures
    /\ SendRequest
    /\ soup' = NoSoup
    /\ fetchFailures' = fetchFailures + 1
    /\ Crash("get_soup")
    /\ UNCHANGED <<page, chinese_items, movie_infos, movie_posters, idx, csv,
                   images, chart, sleeps, attempts, headerWrites,
                   itemsServed, retainedRows>>

\* main moving on to the next page without the sleep after a failed fetch
GetSoupFailed_NoSleep ==
    /\ pc = "get_soup"
    /\ fetchFailures < MaxFetchFailures
    /\ SendRequest
    /\ soup' = NoSoup
    /\ fetchFailures' = fetchFailures + 1
    /\ IF page + 1 < NumPages
       THEN page' = page + 1 /\ pc' = "get_soup"
       ELSE page' = page /\ pc' = "analyze_data"
    /\ UNCHANGED <<chinese_items, movie_infos, movie_posters, idx, csv,
                   images, chart, sleeps, attempts, headerWrites, crashedIn,
                   itemsServed, retainedRows>>

\* handle_one_page: get_soup(page) catches a RequestException and returns
\* None, and handle_one_page returns
GetSoupFailed ==
    /\ pc = "get_soup"
    /\ fetchFailures < MaxFetchFailures
    /\ SendRequest
    /\ soup' = NoSoup
    /\ fetchFailures' = fetchFailures + 1
    /\ pc' = "random_sleep"
    /\ UNCHANGED <<page, chinese_items, movie_infos, movie_posters, idx, csv,
                   images, chart, sleeps, attempts, headerWrites, crashedIn,
                   itemsServed, retainedRows>>

\* handle_one_page: chinese_items = get_chinese_items(soup)
GetChineseItems ==
    /\ pc = "get_chinese_items"
    /\ LET r == get_chinese_items(soup.items) IN
       IF r.raised
       THEN Crash("get_chinese_items") /\ UNCHANGED chinese_items
       ELSE chinese_items' = r.value /\ pc' = "get_movie_infos"
                                     /\ UNCHANGED crashedIn
    /\ UNCHANGED <<page, soup, movie_infos, movie_posters, idx, csv, images,
                   chart, requests, sleeps, attempts, headerWrites,
                   fetchFailures, itemsServed, retainedRows, csvAtFetch,
                   attemptsAtFetch>>

\* handle_one_page: movie_infos = get_movie_infos(chinese_items)
GetMovieInfos ==
    /\ pc = "get_movie_infos"
    /\ LET r == get_movie_infos(chinese_items) IN
       IF r.raised
       THEN Crash("get_movie_infos") /\ UNCHANGED movie_infos
       ELSE movie_infos' = r.value /\ pc' = "get_movie_posters"
                                   /\ UNCHANGED crashedIn
    /\ UNCHANGED <<page, soup, chinese_items, movie_posters, idx, csv, images,
                   chart, requests, sleeps, attempts, headerWrites,
                   fetchFailures, itemsServed, retainedRows, csvAtFetch,
                   attemptsAtFetch>>

\* handle_one_page: movie_posters = get_movie_posters(chinese_items)
GetMoviePosters ==
    /\ pc = "get_movie_posters"
    /\ LET r == get_movie_posters(chinese_items) IN
       IF r.raised
       THEN Crash("get_movie_posters") /\ UNCHANGED movie_posters
       ELSE movie_posters' = r.value /\ pc' = "write_to_csv"
                                     /\ UNCHANGED crashedIn
    /\ UNCHANGED <<page, soup, chinese_items, movie_infos, idx, csv, images,
                   chart, requests, sleeps, attempts, headerWrites,
                   fetchFailures, itemsServed, retainedRows, csvAtFetch,
                   attemptsAtFetch>>

\* handle_one_page: write_to_csv(movie_infos, movie_posters)
WriteToCsv ==
    /\ pc = "write_to_csv"
    /\ csv' = AppendRows(csv, movie_infos, movie_posters)
    /\ retainedRows' = retainedRows \o RowsOf(soup.items)
    /\ idx' = 1
    /\ pc' = "write_to_img"
    /\ UNCHANGED <<page, soup, chinese_items, movie_infos, movie_posters,
                   images, chart, requests, sleeps, attempts, headerWrites,
                   crashedIn, fetchFailures, itemsServed, csvAtFetch,
                   attemptsAtFetch>>

Attempt(poster, ok) == [name |-> poster[1], url |-> poster[2], ok |-> ok]

\* write_to_img with the try around the whole loop: the first failed
\* download ends the loop
DownloadFailed_EndsLoop ==
    /\ pc = "write_to_img"
    /\ idx <= Len(movie_posters)
    /\ \/ movie_posters[idx][2] = None
       \/ DownloadFailures(attempts) < MaxDownloadFailures
    /\ attempts' = Append(attempts, Attempt(movie_posters[idx], FALSE))
    /\ idx' = Len(movie_posters) + 1
    /\ UNCHANGED <<pc, page, soup, chinese_items, movie_infos, movie_posters,
                   csv, images, chart, requests, sleeps, headerWrites,
                   crashedIn, fetchFailures, itemsServed, retainedRows,
                   csvAtFetch, attemptsAtFetch>>

\* write_to_img, one iteration: the download raises a RequestException
\* (always, for a poster with no src), which is logged
DownloadFailed ==
    /\ pc = "write_to_img"
    /\ idx <= Len(movie_posters)
    /\ \/ movie_posters[idx][2] = None
       \/ DownloadFailures(attempts) < MaxDownloadFailures
    /\ attempts' = Append(attempts, Attempt(movie_posters[idx], FALSE))
    /\ idx' = idx + 1
    /\ UNCHANGED <<pc, page, soup, chinese_items, movie_infos, movie_posters,
                   csv, images, chart, requests, sleeps, headerWrites,
                   crashedIn, fetchFailures, itemsServed, retainedRows,
                   csvAtFetch, attemptsAtFetch>>

\* write_to_img, one iteration: the download succeeds and the image file is
\* written, or open() raises an OSError that nothing catches
DownloadSucceeded ==
    /\ pc = "write_to_img"
    /\ idx <= Len(movie_posters)
    /\ movie_posters[idx][2] # None
    /\ attempts' = Append(attempts, Attempt(movie_posters[idx], TRUE))
    /\ IF CanCreate(movie_posters[idx][1])
       THEN /\ images' = images \cup {FileName(movie_posters[idx][1])}
            /\ idx' = idx + 1
            /\ UNCHANGED <<pc, crashedIn>>
       ELSE /\ Crash("write_to_img")
            /\ UNCHANGED <<images, idx>>
    /\ UNCHANGED <<page, soup, chinese_items, movie_infos, movie_posters, csv,
                   chart, requests, sleeps, headerWrites, fetchFailures,
                   itemsServed, retainedRows, csvAtFetch, attemptsAtFetch>>

\* write_to_img returns, handle_one_page logs the page and returns
WriteToImgReturn ==
    /\ pc = "write_to_img"
    /\ idx > Len(movie_posters)
    /\ pc' = "random_sleep"
    /\ UNCHANGED <<page, soup, chinese_items, movie_infos, movie_posters, idx,
                   csv, images, chart, requests, sleeps, attempts,
                   headerWrites, crashedIn, fetchFailures, itemsServed,
                   retainedRows, csvAtFetch, attemptsAtFetch>>

\* main: random_sleep(), then the next page or analyze_data; the locals of
\* handle_one_page are gone
RandomSleep ==
    /\ pc = "random_sleep"
    /\ sleeps' = Append(sleeps, page)
    /\ IF page + 1 < NumPages
       THEN page' = page + 1 /\ pc' = "get_soup"
       ELSE page' = page /\ pc' = "analyze_data"
    /\ soup' = NoSoup
    /\ chinese_items' = <<>>
    /\ movie_infos' = <<>>
    /\ movie_posters' = <<>>
    /\ idx' = 1
    /\ UNCHANGED <<csv, images, chart, requests, attempts, headerWrites,
                   crashedIn, fetchFailures, itemsServed, retainedRows,
                   csvAtFetch, attemptsAtFetch>>

\* main: analyze_data()
AnalyzeData ==
    /\ pc = "analyze_data"
    /\ LET years == ReadYears(csv) IN
       IF years.raised
       THEN Crash("analyze_data") /\ UNCHANGED chart
       ELSE chart' = Histogram(years.value) /\ pc' = "done"
                                            /\ UNCHANGED crashedIn
    /\ UNCHANGED <<page, soup, chinese_items, movie_infos, movie_posters, idx,
                   csv, images, requests, sleeps, attempts, headerWrites,
                   fetchFailures, itemsServed, retainedRows, csvAtFetch,
                   attemptsAtFetch>>

HandleOnePage ==
    \/ GetChineseItems
    \/ GetMovieInfos
    \/ GetMoviePosters
    \/ WriteToCsv
    \/ DownloadFailed
    \/ DownloadSucceeded
    \/ WriteToImgReturn

Next ==
    \/ WriteCsvHeader
    \/ GetSoupParsed
    \/ GetSoupFailed
    \/ HandleOnePage
    \/ RandomSleep
    \/ AnalyzeData

Spec == Init /\ [][Next]_vars

-----------------------------------------------------------------------------
(* One page: handle_one_page from the moment get_soup has returned the    *)
(* document of page 0, for a wider choice of documents                     *)

\* descriptive texts: what precedes the first line, the first line, the
\* break and indentation before the second line, the second line, the rest
Leads == { <<>>, <<NL>>, <<SP>>, <<NL, SP, NL>> }
FirstLines == { <<"D">>, <<"D", SP, "Z", "G">> }
Breaks == { <<NL>>, <<NL, SP, SP>> }
SecondLines ==
    { <<"1", "9", "9", "4">>, <<"1", "9", "9", "4", SP, "Z", "G">>,
      <<"2", "0", "0", "1", "7">>, <<"1", "9", SP, "Z", "G">>,
      <<"Z", "G">>, <<>> }
Rests == { <<>>, <<SP, NL>>, <<NL, "Z", "G", NL>> }

Texts ==
    { a \o b \o c \o d \o e :
        a \in Leads, b \in FirstLines, c \in Breaks, d \in SecondLines, e \in Rests }
    \cup { a \o b \o e : a \in Leads, b \in FirstLines, e \in { <<>>, <<SP, NL>> } }

TextDocuments == { <<Block(t, <<"A">>, TRUE, <<"a">>, <<"u">>)>> : t \in Texts }

\* a page of three domestic and two other items
ScenarioDocuments ==
    { << Block(DescChina1994, <<"A">>, TRUE, <<"a">>, <<"u">>),
         Block(DescForeign, <<"C">>, TRUE, <<"c">>, <<"w">>),
         Block(DescChina2001, <<"B">>, TRUE, <<"b">>, <<"v">>),
         Block(DescForeign, Absent, FALSE, None, None),
         Block(DescChina2001, <<"M">>, TRUE, None, None) >> }

PageDocuments == Documents \cup TextDocuments \cup ScenarioDocuments

PageInit ==
    /\ pc = "get_chinese_items"
    /\ page = 0
    /\ \E doc \in PageDocuments :
        /\ soup = Soup(doc)
        /\ itemsServed = Len(doc)
    /\ chinese_items = <<>>
    /\ movie_infos = <<>>
    /\ movie_posters = <<>>
    /\ idx = 1
    /\ csv = <<HeaderRow>>
    /\ images = {}
    /\ chart = NoChart
    /\ requests = <<[page |-> 0, params |-> get_params(0)]>>
    /\ sleeps = <<>>
    /\ attempts = <<>>
    /\ headerWrites = 1
    /\ crashedIn = "nowhere"
    /\ fetchFailures = 0
    /\ retainedRows = <<>>
    /\ csvAtFetch = <<HeaderRow>>
    /\ attemptsAtFetch = <<>>

PageSpec == PageInit /\ [][HandleOnePage]_vars

-----------------------------------------------------------------------------
(* Vocabulary of the properties *)

\* where control is once a stage of handle_one_page has returned
PastFilter ==
    \/ pc \in {"get_movie_infos", "get_movie_posters", "write_to_csv", "write_to_img"}
    \/ pc = "random_sleep" /\ soup.parsed
    \/ pc = "crashed" /\ crashedIn \in {"get_movie_infos", "get_movie_posters", "write_to_img"}

PastInfos ==
    \/ pc \in {"get_movie_posters", "write_to_csv", "write_to_img"}
    \/ pc = "random_sleep" /\ soup.parsed
    \/ pc = "crashed" /\ crashedIn \in {"get_movie_posters", "write_to_img"}

PastPosters ==
    \/ pc \in {"write_to_csv", "write_to_img"}
    \/ pc = "random_sleep" /\ soup.parsed
    \/ pc = "crashed" /\ crashedIn = "write_to_img"

PastCsv ==
    \/ pc = "write_to_img"
    \/ pc = "random_sleep" /\ soup.parsed
    \/ pc = "crashed" /\ crashedIn = "write_to_img"

PageReturned == pc = "random_sleep" /\ soup.parsed

\* the positions of a text that hold no whitespace, and that hold a break
Inked(s) == { i \in 1..Len(s) : s[i] \notin Whitespace }
BreaksIn(s) == { i \in 1..Len(s) : s[i] = NL }

Least(S) == CHOOSE x \in S : \A y \in S : x <= y
Greatest(S) == CHOOSE x \in S : \A y \in S : y <= x

\* a text without its leading and trailing whitespace
Trimmed(s) ==
    IF Inked(s) = {} THEN <<>> ELSE SubSeq(s, Least(Inked(s)), Greatest(Inked(s)))

\* how many lines a text has, and its second line when it has two
LineCount(s) ==
    IF s = <<>> THEN 0
    ELSE Cardinality(BreaksIn(s)) + (IF s[Len(s)] = NL THEN 0 ELSE 1)

SecondLine(s) ==
    LET first == Least(BreaksIn(s))
        later == { i \in BreaksIn(s) : i > first }
        stop == IF later = {} THEN Len(s) + 1 ELSE Least(later)
    IN  SubSeq(s, first + 1, stop - 1)

FirstFour(s) == [i \in 1..Min(4, Len(s)) |-> s[i]]

\* the blocks of the current document that hold the marker, in order
Retained == SelectSeq(soup.items, HasMarker)

-----------------------------------------------------------------------------
(* C3 *)

\* C3: whenever get_chinese_items has returned for a document, chinese_items
\* holds the blocks of the document whose descriptive text contains the
\* marker, each once and in document order, and no block without it.
C3_DomesticFilter ==
    PastFilter =>
        /\ \A j \in 1..Len(chinese_items) : Contains(chinese_items[j].desc, Marker)
        /\ \E at \in [1..Len(chinese_items) -> 1..Len(soup.items)] :
            /\ \A j \in 1..Len(chinese_items) : chinese_items[j] = soup.items[at[j]]
            /\ \A j, k \in 1..Len(chinese_items) : j < k => at[j] < at[k]
            /\ \A i \in 1..Len(soup.items) :
                Contains(soup.items[i].desc, Marker) =>
                    \E j \in 1..Len(chinese_items) : at[j] = i

\* a two-block document whose second block alone is retained
C3_Witness ==
    /\ pc = "get_movie_infos"
    /\ Len(soup.items) = 2
    /\ ~Contains(soup.items[1].desc, Marker)
    /\ chinese_items = <<soup.items[2]>>

-----------------------------------------------------------------------------
(* C4 *)

\* C4 as stated: for every retained block whose descriptive text has two
\* lines or more, the year is the first 4 characters of the trimmed second
\* line of that text.
C4_YearOfSecondLine ==
    PastInfos =>
        \A i \in 1..Len(chinese_items) :
            LineCount(chinese_items[i].desc) >= 2 =>
                movie_infos[i][2] = FirstFour(Trimmed(SecondLine(chinese_items[i].desc)))

\* C4 amended: whenever get_movie_infos has returned, the trimmed descriptive
\* text of every retained block has two lines or more and the block's year
\* is the first 4 characters of the trimmed second line of the trimmed text;
\* get_movie_infos raises only when a retained block has no title or its
\* trimmed text has fewer than two lines.
C4_YearOfTrimmedText ==
    /\ PastInfos =>
        /\ Len(movie_infos) = Len(chinese_items)
        /\ \A i \in 1..Len(chinese_items) :
            /\ LineCount(Trimmed(chinese_items[i].desc)) >= 2
            /\ movie_infos[i][2] =
                  FirstFour(Trimmed(SecondLine(Trimmed(chinese_items[i].desc))))
    /\ (pc = "crashed" /\ crashedIn = "get_movie_infos") =>
        \E i \in 1..Len(chinese_items) :
            \/ chinese_items[i].title = Absent
            \/ LineCount(Trimmed(chinese_items[i].desc)) < 2

\* a text that opens with a blank line: its own second line is the first
\* line of the trimmed text, and the year comes from the line after it
C4_Witness ==
    /\ pc = "get_movie_posters"
    /\ Len(chinese_items) = 1
    /\ Head(chinese_items[1].desc) = NL
    /\ LineCount(chinese_items[1].desc) >= 3
    /\ movie_infos[1][2] = <<"2", "0", "0", "1">>
    /\ movie_infos[1][2] # FirstFour(Trimmed(SecondLine(chinese_items[1].desc)))

-----------------------------------------------------------------------------
(* C5 *)

\* C5: for a fetched page with n retained blocks, get_movie_infos and
\* get_movie_posters each return n entries in block order, write_to_csv
\* appends exactly n rows, the i-th carrying the title, year and poster link
\* of the i-th retained block, and write_to_img returns after exactly n
\* download attempts, one per retained block in order.
C5_PositionalPairing ==
    LET n == Len(Retained) IN
    /\ PastInfos =>
        /\ Len(movie_infos) = n
        /\ \A i \in 1..n : movie_infos[i][1] = Retained[i].title
    /\ PastPosters =>
        /\ Len(movie_posters) = n
        /\ \A i \in 1..n : movie_posters[i] = <<Retained[i].alt, Retained[i].src>>
    /\ PastCsv =>
        /\ Len(csv) = Len(csvAtFetch) + n
        /\ SubSeq(csv, 1, Len(csvAtFetch)) = csvAtFetch
        /\ \A i \in 1..n :
            csv[Len(csvAtFetch) + i] =
                << Retained[i].title,
                   FirstFour(Trimmed(SecondLine(Trimmed(Retained[i].desc)))),
                   IF Retained[i].src = None THEN <<>> ELSE Retained[i].src >>
    /\ PageReturned =>
        /\ Len(attempts) = Len(attemptsAtFetch) + n
        /\ \A i \in 1..n :
            /\ attempts[Len(attemptsAtFetch) + i].url = Retained[i].src
            /\ attempts[Len(attemptsAtFetch) + i].name = Retained[i].alt

\* the page of three domestic and two other items, handled to the end
C5_Witness ==
    /\ PageReturned
    /\ Len(soup.items) = 5
    /\ Len(Retained) = 3
    /\ Len(csv) = 4
    /\ Len(attempts) = 3

-----------------------------------------------------------------------------
(* C1 *)

InPipeline ==
    pc \in {"get_chinese_items", "get_movie_infos", "get_movie_posters",
            "write_to_csv", "write_to_img"}

AnalyzerReached ==
    pc \in {"analyze_data", "done"} \/ (pc = "crashed" /\ crashedIn = "analyze_data")

\* C1: when the fetch of a page fails, get_soup returns None and
\* handle_one_page returns with no row appended and no poster download
\* attempted; the failure does not end the run (a run ends early only inside
\* a page whose fetch succeeded), so a run that reaches the analyzer has
\* requested all 10 pages, and every page whose fetch succeeded and that was
\* handled to the end has its rows appended.
C1_FetchFailureIsolation ==
    /\ (pc = "random_sleep" /\ ~soup.parsed) =>
        /\ csv = csvAtFetch
        /\ attempts = attemptsAtFetch
        /\ Len(requests) = page + 1
    /\ InPipeline => soup.parsed
    /\ pc = "crashed" => (soup.parsed \/ crashedIn = "analyze_data")
    /\ AnalyzerReached =>
        { requests[i].page : i \in 1..Len(requests) } = 0..(NumPages - 1)
    /\ PageReturned => csv = csvAtFetch \o RowsOf(soup.items)

\* rows are appended for a page fetched after an earlier fetch failed
C1_Witness ==
    /\ PageReturned
    /\ fetchFailures >= 1
    /\ Len(csv) > Len(csvAtFetch)

-----------------------------------------------------------------------------
(* C2 *)

\* C2: the header is written exactly once, before any page is requested;
\* from then on douban.csv is the header row followed by the rows of the
\* retained blocks of the pages written so far, in page order and block
\* order, and every step keeps what the file already holds as a prefix.
C2_TabularFile ==
    /\ [](/\ headerWrites = (IF pc = "write_csv_header" THEN 0 ELSE 1)
          /\ pc = "write_csv_header" => requests = <<>>
          /\ pc # "write_csv_header" => csv = <<HeaderRow>> \o retainedRows)
    /\ [][pc # "write_csv_header" =>
            /\ Len(csv') >= Len(csv)
            /\ SubSeq(csv', 1, Len(csv)) = csv]_vars

\* two pages have each added a row
C2_Witness ==
    /\ PageReturned
    /\ Len(csvAtFetch) >= 2
    /\ Len(csv) > Len(csvAtFetch)

-----------------------------------------------------------------------------
(* C6 *)

\* C6: a poster download that fails writes no image file, leaves douban.csv
\* as it is and lets write_to_img go on to the next poster; a page handled
\* to the end has had one attempt per poster and holds the rows of its
\* retained blocks whatever the downloads did; every image file comes from
\* a download that succeeded, and an exception leaves write_to_img only
\* after a download that succeeded.
C6_DownloadFailureIsolation ==
    /\ [][(attempts' # attempts /\ ~attempts'[Len(attempts')].ok) =>
            /\ images' = images
            /\ csv' = csv
            /\ pc' = "write_to_img"
            /\ idx' = idx + 1]_vars
    /\ [](/\ PageReturned =>
              /\ Len(attempts) = Len(attemptsAtFetch) + Len(movie_posters)
              /\ csv = csvAtFetch \o RowsOf(soup.items)
          /\ \A f \in images :
                \E i \in 1..Len(attempts) :
                    attempts[i].ok /\ FileName(attempts[i].name) = f
          /\ (pc = "crashed" /\ crashedIn = "write_to_img") =>
                attempts[Len(attempts)].ok)

\* after a failed download on one page a later page is handled to its end,
\* with a download that succeeds
C6_Witness ==
    /\ PageReturned
    /\ Len(attemptsAtFetch) >= 1
    /\ ~attemptsAtFetch[1].ok
    /\ attemptsAtFetch[1].url # None
    /\ Len(attempts) > Len(attemptsAtFetch)
    /\ attempts[Len(attempts)].ok

-----------------------------------------------------------------------------
(* C7 *)

\* C7: the sleeps taken are those after pages 0, 1, ... in order, one per
\* page whose pipeline has returned, whether its fetch succeeded or failed;
\* page i+1 is requested only once the sleep after page i is over; a run
\* that reaches the analyzer has slept exactly 10 times.
C7_Pacing ==
    /\ sleeps = [i \in 1..Len(sleeps) |-> i - 1]
    /\ Len(sleeps) = (IF AnalyzerReached THEN 10 ELSE page)
    /\ Len(requests) <= Len(sleeps) + 1
    /\ pc = "get_soup" => Len(requests) = Len(sleeps)

\* the run is over, with a failed fetch among its pages
C7_Witness ==
    /\ pc = "done"
    /\ fetchFailures >= 1
    /\ Len(sleeps) = 10

-----------------------------------------------------------------------------
(* C8 *)

\* C8: the page requests sent are those of indices 0, 1, ... in ascending
\* order, each once, at most 10 of them, the i-th with offset 25 times its
\* index.
C8_PageSequence ==
    /\ Len(requests) <= 10
    /\ requests = [i \in 1..Len(requests) |->
                      [page |-> i - 1, params |-> [start |-> (i - 1) * 25]]]
    /\ AnalyzerReached => Len(requests) = 10

\* all ten pages requested, two of the fetches having failed
C8_Witness ==
    /\ Len(requests) = 10
    /\ requests[10].params.start = 225
    /\ fetchFailures >= 2
    /\ pc = "done"

-----------------------------------------------------------------------------
(* C9 *)

\* C9 as stated: the analyzer runs once, only after all 10 pages, and for
\* the N data rows of douban.csv it parses N integer years and yields the
\* histogram of those years in strictly ascending order of year, each count
\* the number of rows with that year.
C9_AnalyzerHistogram ==
    /\ chart # NoChart => pc = "done"
    /\ (pc = "done" \/ (pc = "crashed" /\ crashedIn = "analyze_data")) =>
        /\ Len(requests) = 10
        /\ Len(sleeps) = 10
        /\ pc = "done"
        /\ \A k \in 1..Len(chart) :
            /\ chart[k][2] >= 1
            /\ chart[k][2] =
                 Cardinality({ r \in 2..Len(csv) :
                                 ParseInt(csv[r][2]).value = chart[k][1] })
        /\ \A k \in 1..(Len(chart) - 1) : chart[k][1] < chart[k + 1][1]
        /\ \A r \in 2..Len(csv) :
            \E k \in 1..Len(chart) : chart[k][1] = ParseInt(csv[r][2]).value

-----------------------------------------------------------------------------
(* C10 *)

\* some block of the document lacks one of the nested elements
MissingAnywhere(items) ==
    \E i \in 1..Len(items) :
        items[i].desc = Absent \/ items[i].title = Absent \/ ~items[i].hasImg

\* some block lacks an element that the code looks up in it: the descriptive
\* paragraph in any block, the title or the image in a block that holds the
\* marker
MissingWhereLookedUp(items) ==
    \E i \in 1..Len(items) :
        \/ items[i].desc = Absent
        \/ /\ Contains(items[i].desc, Marker)
           /\ (items[i].title = Absent \/ ~items[i].hasImg)

\* the page's pipeline has not reached write_to_csv, and if the run has
\* ended it ended in filtering or extraction with nothing of the page done
StoppedBeforeCsv ==
    \/ pc \in {"get_chinese_items", "get_movie_infos", "get_movie_posters"}
    \/ /\ pc = "crashed"
       /\ crashedIn \in {"get_chinese_items", "get_movie_infos", "get_movie_posters"}
       /\ csv = csvAtFetch
       /\ csv = <<HeaderRow>> \o retainedRows
       /\ attempts = attemptsAtFetch
       /\ Len(requests) = page + 1
       /\ Len(sleeps) = page
       /\ chart = NoChart

\* C10 as stated: a nested element absent from any item block of the page
\* ends the run before write_to_csv.
C10_AnyBlockFailsFast ==
    (soup.parsed /\ MissingAnywhere(soup.items)) => StoppedBeforeCsv

\* C10 amended: when the descriptive paragraph is absent from any item block
\* of page k, or the title or the image element is absent from a block of
\* page k that holds the marker, the run ends during filtering or extraction
\* before write_to_csv: the file holds the header and the rows of the pages
\* before k, no poster of page k is attempted, page k is the last page
\* requested, no sleep follows it, the analyzer never runs, and no step
\* follows the end of the run.
C10_LookedUpBlockFailsFast ==
    /\ []((soup.parsed /\ MissingWhereLookedUp(soup.items)) => StoppedBeforeCsv)
    /\ [][pc # "crashed"]_vars

\* the run has ended in get_movie_infos on a later page, the rows of an
\* earlier page still in the file
C10_Witness ==
    /\ pc = "crashed"
    /\ crashedIn = "get_movie_infos"
    /\ MissingWhereLookedUp(soup.items)
    /\ page >= 1
    /\ Len(csv) >= 2

=============================================================================
